---- MODULE Spec2Model ----
(***************************************************************************)
(* A model of FTA.py, the "Budget Buddy" personal finance tracker: a       *)
(* Streamlit script over Firebase Auth and Firestore.  Every script run    *)
(* (app()) is one atomic step of one browser session.                      *)
(*                                                                         *)
(* Text is modelled as a sequence of one-character strings, so substring   *)
(* tests, lower-casing, date formatting and parsing are computed, not      *)
(* assumed.  Money is counted in hundredths (the forms use format "%.2f"), *)
(* so 0.01 is 1 and -20.00 is -2000; binary floating-point rounding of     *)
(* pandas' sums is outside the model.                                      *)
(***************************************************************************)
EXTENDS Integers, Sequences, FiniteSets, TLC

VARIABLES
    accounts,       \* Firebase Auth: the set of e-mails that have an account
    session_state,  \* st.session_state of every browser session
    db,             \* Firestore: users/<uid>/transactions and users/<uid>/lending_loan
    form,           \* the transaction form of the last run: description, suggestion
    view,           \* what the last script run rendered
    event           \* the interaction that triggered the last script run

vars == <<accounts, session_state, db, form, view, event>>

(***************************************************************************)
(* Bounds of the model.                                                    *)
(***************************************************************************)
\* the most words a description of the categorizer's input set is made of
MaxWords == 2
\* the most records of a transaction collection drawn as aggregation input
MaxTx == 3
\* the most documents Firestore holds in the application runs explored
MaxDocs == 2

(***************************************************************************)
(* Text helpers (Python str).                                              *)
(***************************************************************************)
LowerOf ==
    [ A |-> "a", B |-> "b", C |-> "c", D |-> "d", E |-> "e", F |-> "f", G |-> "g", H |-> "h", I |-> "i", J |-> "j", K |-> "k", L |-> "l", M |-> "m", N |-> "n", O |-> "o", P |-> "p", Q |-> "q", R |-> "r", S |-> "s", T |-> "t", U |-> "u", V |-> "v", W |-> "w", X |-> "x", Y |-> "y", Z |-> "z" ]


\* str.lower() of one character
ToLower(c) == IF c \in DOMAIN LowerOf THEN LowerOf[c] ELSE c

\* str.lower()
Lower(s) == [i \in 1..Len(s) |-> ToLower(s[i])]

\* Python's "term in desc" on strings: term occurs as a contiguous substring
Contains(desc, term) ==
    \E i \in 0..(Len(desc) - Len(term)) : SubSeq(desc, i + 1, i + Len(term)) = term

\* list.index(x): the 0-based position of the first x; -1 stands for the
\* ValueError raised when x is absent
ListIndex(list, x) ==
    IF \E i \in 1..Len(list) : list[i] = x
    THEN (CHOOSE i \in 1..Len(list) :
              list[i] = x /\ \A j \in 1..(i - 1) : list[j] # x) - 1
    ELSE -1

(***************************************************************************)
(* Keyword-based categorization: suggest_category.                         *)
(***************************************************************************)
\* the dict literal of suggest_category, in insertion (= iteration) order
keywords ==
    << [category |-> "Food",
        terms |-> << <<"r", "e", "s", "t", "a", "u", "r", "a", "n", "t">>,
                   <<"c", "a", "f", "e">>,
                   <<"g", "r", "o", "c", "e", "r", "i", "e", "s">>,
                   <<"s", "u", "p", "e", "r", "m", "a", "r", "k", "e", "t">>,
                   <<"f", "o", "o", "d">>,
                   <<"e", "a", "t">> >>],
       [category |-> "Transport",
        terms |-> << <<"g", "a", "s">>,
                   <<"f", "u", "e", "l">>,
                   <<"b", "u", "s">>,
                   <<"t", "r", "a", "i", "n">>,
                   <<"u", "b", "e", "r">>,
                   <<"c", "a", "b">> >>],
       [category |-> "Shopping",
        terms |-> << <<"s", "t", "o", "r", "e">>,
                   <<"o", "n", "l", "i", "n", "e">>,
                   <<"a", "m", "a", "z", "o", "n">>,
                   <<"m", "a", "l", "l">>,
                   <<"c", "l", "o", "t", "h", "e", "s">> >>],
       [category |-> "Bills",
        terms |-> << <<"r", "e", "n", "t">>,
                   <<"u", "t", "i", "l", "i", "t", "y">>,
                   <<"p", "h", "o", "n", "e", " ", "b", "i", "l", "l">>,
                   <<"e", "l", "e", "c", "t", "r", "i", "c", "i", "t", "y">> >>],
       [category |-> "Entertainment",
        terms |-> << <<"m", "o", "v", "i", "e">>,
                   <<"c", "i", "n", "e", "m", "a">>,
                   <<"c", "o", "n", "c", "e", "r", "t">>,
                   <<"g", "a", "m", "e">> >>],
       [category |-> "Trip",
        terms |-> << <<"f", "l", "i", "g", "h", "t">>,
                   <<"h", "o", "t", "e", "l">>,
                   <<"t", "r", "a", "v", "e", "l">>,
                   <<"v", "a", "c", "a", "t", "i", "o", "n">> >>],
       [category |-> "Education/Fees",
        terms |-> << <<"f", "e", "e", "s">>,
                   <<"t", "u", "i", "t", "i", "o", "n">>,
                   <<"s", "c", "h", "o", "o", "l">>,
                   <<"c", "o", "l", "l", "e", "g", "e">>,
                   <<"u", "n", "i", "v", "e", "r", "s", "i", "t", "y">> >>],
       [category |-> "Services",
        terms |-> << <<"s", "e", "r", "v", "i", "c", "e">>,
                   <<"r", "e", "p", "a", "i", "r">>,
                   <<"i", "n", "s", "t", "r", "u", "m", "e", "n", "t">>,
                   <<"m", "a", "i", "n", "t", "e", "n", "a", "n", "c", "e">>,
                   <<"r", "e", "p", "a", "r", "e">>,
                   <<"c", "h", "a", "r", "g", "e">> >>] >>

\* the category list of the transaction form
categories ==
    <<"Food", "Transport", "Shopping", "Bills", "Entertainment", "Trip",
      "Education/Fees", "Services", "Other">>

\* any(term in desc for term in terms)
AnyTerm(terms, desc) == \E k \in 1..Len(terms) : Contains(desc, terms[k])

\* the value suggest_category returns when no category matches
DefaultCategoryTypo == "Others"

DefaultCategory == "Other"

\* the for loop over keywords.items() from position i on
RECURSIVE SuggestFrom(_, _, _)
SuggestFrom(table, i, desc) ==
    IF i > Len(table) THEN DefaultCategory
    ELSE IF AnyTerm(table[i].terms, desc) THEN table[i].category
    ELSE SuggestFrom(table, i + 1, desc)

\* the keyword table iterated in reverse
KeywordOrderReversed == [i \in 1..Len(keywords) |-> keywords[Len(keywords) + 1 - i]]

KeywordOrder == keywords

suggest_category(description) == SuggestFrom(KeywordOrder, 1, Lower(description))

(***************************************************************************)
(* Calendar dates (datetime.date, pandas Timestamp and Period).            *)
(***************************************************************************)
DigitChars == <<"0", "1", "2", "3", "4", "5", "6", "7", "8", "9">>

\* characters in code-point order, as Python compares strings
Ascii ==
    <<" ", "-", "/", "0", "1", "2", "3", "4", "5", "6", "7", "8", "9",
      "A", "B", "C", "D", "E", "F", "G", "H", "I", "J", "K", "L", "M",
      "N", "O", "P", "Q", "R", "S", "T", "U", "V", "W", "X", "Y", "Z",
      "a", "b", "c", "d", "e", "f", "g", "h", "i", "j", "k", "l", "m",
      "n", "o", "p", "q", "r", "s", "t", "u", "v", "w", "x", "y", "z">>

CharCode(c) == CHOOSE i \in 1..Len(Ascii) : Ascii[i] = c

\* Python's s < t on strings
RECURSIVE TextLess(_, _)
TextLess(s, t) ==
    IF t = <<>> THEN FALSE
    ELSE IF s = <<>> THEN TRUE
    ELSE IF s[1] = t[1] THEN TextLess(Tail(s), Tail(t))
    ELSE CharCode(s[1]) < CharCode(t[1])

\* n written in decimal with at least width digits, zero padded ("%04d", "%02d")
RECURSIVE ZeroPad(_, _)
ZeroPad(n, width) ==
    IF width <= 1 /\ n < 10 THEN <<DigitChars[n + 1]>>
    ELSE Append(ZeroPad(n \div 10, width - 1), DigitChars[(n % 10) + 1])

\* the two digits of a month or a day in an ISO date
TwoDigits(n, width) == ZeroPad(n, width)

\* int() of a string of decimal digits
RECURSIVE ParseInt(_)
ParseInt(s) ==
    IF s = <<>> THEN 0
    ELSE 10 * ParseInt(SubSeq(s, 1, Len(s) - 1))
         + (CHOOSE d \in 0..9 : DigitChars[d + 1] = s[Len(s)])

\* str(date): date.isoformat(), "YYYY-MM-DD"
isoformat(d) ==
    ZeroPad(d.year, 4) \o <<"-">> \o TwoDigits(d.month, 2) \o <<"-">> \o TwoDigits(d.day, 2)

\* pd.to_datetime of an ISO date string
to_datetime(s) ==
    [year |-> ParseInt(SubSeq(s, 1, 4)),
     month |-> ParseInt(SubSeq(s, 6, 7)),
     day |-> ParseInt(SubSeq(s, 9, 10))]

IsLeap(y) == y % 4 = 0 /\ (y % 100 # 0 \/ y % 400 = 0)

DaysBeforeMonthTable == <<0, 31, 59, 90, 120, 151, 181, 212, 243, 273, 304, 334>>

DaysInMonthTable == <<31, 28, 31, 30, 31, 30, 31, 31, 30, 31, 30, 31>>

DaysBeforeYear(y) == (y - 1) * 365 + (y - 1) \div 4 - (y - 1) \div 100 + (y - 1) \div 400

DaysBeforeMonth(y, m) == DaysBeforeMonthTable[m] + (IF m > 2 /\ IsLeap(y) THEN 1 ELSE 0)

\* date.toordinal(): day 1 is 0001-01-01
ToOrdinal(d) == DaysBeforeYear(d.year) + DaysBeforeMonth(d.year, d.month) + d.day

\* date.fromordinal()
FromOrdinal(ordinal) ==
    LET n0   == ordinal - 1
        n400 == n0 \div 146097
        r400 == n0 % 146097
        n100 == r400 \div 36524
        r100 == r400 % 36524
        n4   == r100 \div 1461
        r4   == r100 % 1461
        n1   == r4 \div 365
        n    == r4 % 365
        year == n400 * 400 + 1 + n100 * 100 + n4 * 4 + n1
        leap == n1 = 3 /\ (n4 # 24 \/ n100 = 3)
        guess == (n + 50) \div 32
        before == DaysBeforeMonthTable[guess] + (IF guess > 2 /\ leap THEN 1 ELSE 0)
        month == IF before > n THEN guess - 1 ELSE guess
        preceding ==
            IF before > n
            THEN before - (DaysInMonthTable[month] + (IF month = 2 /\ leap THEN 1 ELSE 0))
            ELSE before
    IN  IF n1 = 4 \/ n100 = 4
        THEN [year |-> year - 1, month |-> 12, day |-> 31]
        ELSE [year |-> year, month |-> month, day |-> n - preceding + 1]

\* date.weekday(): Monday is 0, Sunday is 6
Weekday(d) == (ToOrdinal(d) + 6) % 7

\* the position of a date in a week that runs Sunday to Saturday
WeekdaySundayFirst(d) == ToOrdinal(d) % 7

\* the position of a date in its week of the 'W' (W-SUN) frequency: Monday first
DayOfWeekPeriod(d) == Weekday(d)

\* str(Period(d, 'W')): "start/end", the Monday and the Sunday around d
WeekLabel(d) ==
    LET start == ToOrdinal(d) - DayOfWeekPeriod(d)
    IN  isoformat(FromOrdinal(start)) \o <<"/">> \o isoformat(FromOrdinal(start + 6))

\* a month label that leaves the year out (dt.month)
MonthOfYearLabel(d) == TwoDigits(d.month, 2)

\* str(Period(d, 'M')): "YYYY-MM"
MonthLabel(d) == ZeroPad(d.year, 4) \o <<"-">> \o TwoDigits(d.month, 2)

(***************************************************************************)
(* DataFrames and the pandas operations main_app uses.                     *)
(***************************************************************************)
\* pd.DataFrame(): no columns, no rows
EmptyFrame == [columns |-> {}, rows |-> <<>>]

\* "if not data: return pd.DataFrame()" else pd.DataFrame(data)
DataFrame(data) ==
    IF Len(data) = 0 THEN EmptyFrame
    ELSE [columns |-> DOMAIN data[1], rows |-> data]

\* DataFrame.empty
Empty(df) == df.columns = {} \/ Len(df.rows) = 0

\* .collection('users').document(user_id).collection(name).stream(): the documents
\* stored under the user, none when nothing was ever written there
Stream(store, user_id, name) ==
    IF user_id \in DOMAIN store THEN store[user_id][name] ELSE <<>>

get_transactions_df(store, user_id) == DataFrame(Stream(store, user_id, "transactions"))

get_lending_loan_df(store, user_id) == DataFrame(Stream(store, user_id, "lending_loan"))

\* df[c] raises KeyError when the frame has no column c
Missing(df, needed) == needed \ df.columns

RECURSIVE SeqSum(_)
SeqSum(s) == IF s = <<>> THEN 0 ELSE Head(s) + SeqSum(Tail(s))

\* the rows of a frame that satisfy a filter on column col (boolean indexing)
RECURSIVE RowsWhere(_, _, _)
RowsWhere(rows, col, values) ==
    IF rows = <<>> THEN <<>>
    ELSE (IF col \in DOMAIN Head(rows) /\ Head(rows)[col] \in values
          THEN <<Head(rows)>> ELSE <<>>) \o RowsWhere(Tail(rows), col, values)

\* df['amount'].sum(); the sum of the empty column is 0
AmountSum(rows) ==
    SeqSum([i \in 1..Len(rows) |->
               IF "amount" \in DOMAIN rows[i] THEN rows[i].amount ELSE 0])

\* the characters of the category and type names, which pandas sorts group keys by
TextOf(name) ==
    CASE name = "Food" -> <<"F", "o", "o", "d">>
      [] name = "Transport" -> <<"T", "r", "a", "n", "s", "p", "o", "r", "t">>
      [] name = "Shopping" -> <<"S", "h", "o", "p", "p", "i", "n", "g">>
      [] name = "Bills" -> <<"B", "i", "l", "l", "s">>
      [] name = "Entertainment" -> <<"E", "n", "t", "e", "r", "t", "a", "i", "n", "m", "e", "n", "t">>
      [] name = "Trip" -> <<"T", "r", "i", "p">>
      [] name = "Education/Fees" -> <<"E", "d", "u", "c", "a", "t", "i", "o", "n", "/", "F", "e", "e", "s">>
      [] name = "Services" -> <<"S", "e", "r", "v", "i", "c", "e", "s">>
      [] name = "Other" -> <<"O", "t", "h", "e", "r">>
      [] name = "Lent" -> <<"L", "e", "n", "t">>
      [] name = "Loan" -> <<"L", "o", "a", "n">>

\* the group keys of a column
Keys(rows, col) == {rows[i][col] : i \in 1..Len(rows)}

DateLess(a, b) == ToOrdinal(a) < ToOrdinal(b)

NameLess(a, b) == TextLess(TextOf(a), TextOf(b))

\* the order of the keys of a column: dates by the calendar, strings as Python
\* compares them
KeyLess(col, a, b) ==
    CASE col = "date" -> DateLess(a, b)
      [] col = "category" -> NameLess(a, b)
      [] OTHER -> TextLess(a, b)

\* the keys of a groupby in ascending order (groupby sorts its keys)
SortKeys(S, col) ==
    [i \in 1..Cardinality(S) |->
        CHOOSE x \in S : Cardinality({y \in S : KeyLess(col, y, x)}) = i - 1]

\* a groupby that keeps only the rows with a negative amount
GroupBySumExpensesOnly(rows, col) ==
    LET keys == SortKeys(Keys(rows, col), col)
    IN  [i \in 1..Len(keys) |->
            [c \in {col, "amount"} |->
                IF c = col THEN keys[i]
                ELSE AmountSum(RowsWhere(RowsWhere(rows, col, {keys[i]}),
                                         "amount", -1000000..-1))]]

\* df.groupby(col)['amount'].sum().reset_index(): one row per key, keys ascending
GroupBySum(rows, col) ==
    LET keys == SortKeys(Keys(rows, col), col)
    IN  [i \in 1..Len(keys) |->
            [c \in {col, "amount"} |->
                IF c = col THEN keys[i]
                ELSE AmountSum(RowsWhere(rows, col, {keys[i]}))]]

MonthTypeLess(a, b) ==
    \/ TextLess(a[1], b[1])
    \/ a[1] = b[1] /\ NameLess(a[2], b[2])

\* lending_df.groupby(['month', 'type'])['amount'].sum().reset_index()
GroupByMonthType(rows) ==
    LET pairs == {<<rows[i].month, rows[i].type>> : i \in 1..Len(rows)}
        keys == [i \in 1..Cardinality(pairs) |->
                    CHOOSE x \in pairs :
                        Cardinality({y \in pairs : MonthTypeLess(y, x)}) = i - 1]
    IN  [i \in 1..Len(keys) |->
            [month |-> keys[i][1], type |-> keys[i][2],
             amount |-> AmountSum(RowsWhere(RowsWhere(rows, "month", {keys[i][1]}),
                                            "type", {keys[i][2]}))]]

(***************************************************************************)
(* main_app: the dashboard computed from the two fetched frames.           *)
(***************************************************************************)
\* a value computed from columns of a frame, with the KeyErrors the reads raise
Computed(df, needed, value) == [raised |-> Missing(df, needed), value |-> value]

\* a value set without reading the frame
Skipped(value) == [raised |-> {}, value |-> value]

\* the overall total read from the frame without testing for emptiness
total_expenses_unguarded(transactions_df) ==
    Computed(transactions_df, {"amount"}, AmountSum(transactions_df.rows))

\* total_expenses = transactions_df['amount'].sum() if not transactions_df.empty else 0
total_expenses(transactions_df) ==
    IF ~Empty(transactions_df)
    THEN Computed(transactions_df, {"amount"}, AmountSum(transactions_df.rows))
    ELSE Skipped(0)

\* lending_df[lending_df['type'] == t]['amount'].sum() if not lending_df.empty else 0
total_by_type(lending_df, t) ==
    IF ~Empty(lending_df)
    THEN Computed(lending_df, {"type", "amount"},
                  AmountSum(RowsWhere(lending_df.rows, "type", {t})))
    ELSE Skipped(0)

\* the date parsed and the 'week' and 'month' columns added to every row
WithPeriods(rows) ==
    [i \in 1..Len(rows) |->
        LET d == to_datetime(rows[i].date)
        IN  [date |-> d, description |-> rows[i].description,
             amount |-> rows[i].amount, category |-> rows[i].category,
             week |-> WeekLabel(d), month |-> MonthLabel(d)]]

NoTrends == [daily_expenses |-> <<>>, weekly_expenses |-> <<>>,
             monthly_expenses |-> <<>>, category_expenses |-> <<>>]

\* the daily, weekly, monthly and per-category sums of the trend charts
Trends(transactions_df) ==
    IF ~Empty(transactions_df)
    THEN LET rows == WithPeriods(transactions_df.rows)
         IN  Computed(transactions_df, {"date", "amount", "category"},
                 [daily_expenses |-> GroupBySum(rows, "date"),
                  weekly_expenses |-> GroupBySum(rows, "week"),
                  monthly_expenses |-> GroupBySum(rows, "month"),
                  category_expenses |-> GroupBySum(rows, "category")])
    ELSE Skipped(NoTrends)

\* the month column added to every lending row
WithMonth(rows) ==
    [i \in 1..Len(rows) |->
        LET d == to_datetime(rows[i].date)
        IN  [date |-> d, person |-> rows[i].person, amount |-> rows[i].amount,
             type |-> rows[i].type, month |-> MonthLabel(d)]]

\* the bar chart of money lent and loans taken per month
LendingChart(lending_df) ==
    IF ~Empty(lending_df)
    THEN Computed(lending_df, {"date", "type", "amount"},
                  GroupByMonthType(WithMonth(lending_df.rows)))
    ELSE Skipped(<<>>)

bad_categories == {"Entertainment", "Food", "Trip"}

\* the good and the bad rows, their sums, and the two-row summary of the pie chart
GoodBad(transactions_df) ==
    IF ~Empty(transactions_df)
    THEN LET bad_expenses_df == RowsWhere(transactions_df.rows, "category", bad_categories)
             good_expenses_df ==
                 RowsWhere(transactions_df.rows, "category",
                           {categories[k] : k \in 1..Len(categories)} \ bad_categories)
         IN  Computed(transactions_df, {"category", "amount"},
                 [total_bad_expenses |-> AmountSum(bad_expenses_df),
                  goodbad_summary |->
                      <<[type |-> "Good Expenses", Amount |-> AmountSum(good_expenses_df)],
                        [type |-> "Bad Expenses", Amount |-> AmountSum(bad_expenses_df)]>>])
    ELSE Skipped([total_bad_expenses |-> 0, goodbad_summary |-> <<>>])

\* what main_app(user_id) renders from the store
main_app(store, user_id) ==
    LET transactions_df == get_transactions_df(store, user_id)
        lending_df == get_lending_loan_df(store, user_id)
        expenses == total_expenses(transactions_df)
        lent == total_by_type(lending_df, "Lent")
        loan == total_by_type(lending_df, "Loan")
        trends == Trends(transactions_df)
        lending == LendingChart(lending_df)
        goodbad == GoodBad(transactions_df)
    IN  [page |-> "main",
         user_id |-> user_id,
         raised |-> expenses.raised \cup lent.raised \cup loan.raised
                    \cup trends.raised \cup lending.raised \cup goodbad.raised,
         total_expenses |-> expenses.value,
         total_lent |-> lent.value,
         total_loan |-> loan.value,
         daily_expenses |-> trends.value.daily_expenses,
         weekly_expenses |-> trends.value.weekly_expenses,
         monthly_expenses |-> trends.value.monthly_expenses,
         category_expenses |-> trends.value.category_expenses,
         monthly_lending_loan |-> lending.value,
         total_bad_expenses |-> goodbad.value.total_bad_expenses,
         goodbad_summary |-> goodbad.value.goodbad_summary]

\* what login_page() renders, with the message of the button handled in this run
login_page(message) == [page |-> "login", message |-> message]

(***************************************************************************)
(* Firebase Auth and Firestore.                                            *)
(***************************************************************************)
\* auth.get_user_by_email: ValueError for a malformed e-mail, UserNotFoundError
\* (a FirebaseError) when no account has it, the user record otherwise
get_user_by_email(users, email) ==
    IF email = "" THEN [ok |-> FALSE, error |-> "ValueError", uid |-> "None"]
    ELSE IF email \notin DOMAIN users
    THEN [ok |-> FALSE, error |-> "FirebaseError", uid |-> "None"]
    ELSE [ok |-> TRUE, error |-> "", uid |-> users[email]]

\* auth.create_user: ValueError for a malformed e-mail or a password shorter than
\* six characters, EmailAlreadyExistsError (a FirebaseError) for a taken e-mail
create_user_error(users, email, password) ==
    IF email = "" \/ Len(password) < 6 THEN "ValueError"
    ELSE IF email \in DOMAIN users THEN "FirebaseError"
    ELSE ""

\* the transaction written without the sign of its type
SignedAmountIgnoringType(transaction_type, amount_input) == amount_input

\* amount = amount_input if transaction_type == "Income" else -amount_input
SignedAmount(transaction_type, amount_input) ==
    IF transaction_type = "Income" THEN amount_input ELSE -amount_input

\* a write that replaces the user's collection by the new document
add_transaction_overwriting(store, user_id, transaction_date, description, amount, category) ==
    [store EXCEPT ![user_id].transactions =
        <<[date |-> transaction_date, description |-> description,
           amount |-> amount, category |-> category]>>]

\* add_transaction: a new auto-id document in users/<user_id>/transactions
add_transaction(store, user_id, transaction_date, description, amount, category) ==
    [store EXCEPT ![user_id].transactions =
        Append(@, [date |-> transaction_date, description |-> description,
                   amount |-> amount, category |-> category])]

\* add_lending_loan: a new auto-id document in users/<user_id>/lending_loan
add_lending_loan(store, user_id, lending_date, person, amount, loan_type) ==
    [store EXCEPT ![user_id].lending_loan =
        Append(@, [date |-> lending_date, person |-> person,
                   amount |-> amount, type |-> loan_type])]

\* the number of documents in the store
RECURSIVE DocCountOver(_, _)
DocCountOver(store, users) ==
    IF users = {} THEN 0
    ELSE LET u == CHOOSE x \in users : TRUE
         IN  Len(store[u].transactions) + Len(store[u].lending_loan)
             + DocCountOver(store, users \ {u})

DocCount(store) == DocCountOver(store, DOMAIN store)

(***************************************************************************)
(* The script: app(), login_page() and the forms of main_app().            *)
(***************************************************************************)
EmptySession == <<>>

\* if 'logged_in' not in st.session_state: logged_in = False, user_id = None
Initialised(ss) ==
    IF "logged_in" \notin DOMAIN ss THEN [logged_in |-> FALSE, user_id |-> "None"]
    ELSE ss

\* if st.session_state['logged_in']: main_app(user_id) else: login_page()
app(ss, store, message) ==
    IF ss.logged_in THEN main_app(store, ss.user_id) ELSE login_page(message)

\* a Login handler that logs in without looking at the lookup's result
login_button_unchecked(ss, users, email) ==
    [logged_in |-> TRUE, user_id |-> get_user_by_email(users, email).uid]

\* the Login button: user_id and logged_in are set when the lookup succeeds
login_button(ss, users, email) ==
    LET user == get_user_by_email(users, email)
    IN  IF user.ok THEN [logged_in |-> TRUE, user_id |-> user.uid] ELSE ss

\* the transaction form not rendered (the login page is shown)
NoForm == [description |-> <<>>, suggested_cat |-> "?", index |-> 0, raised |-> {}]

\* description, suggested_cat and the index of the category selectbox
EvaluateForm(description) ==
    LET suggested_cat == suggest_category(description)
        at == ListIndex(categories, suggested_cat)
    IN  [description |-> description,
         suggested_cat |-> suggested_cat,
         index |-> at,
         raised |-> IF at < 0 THEN {"ValueError"} ELSE {}]

\* the form as the page shows it: cleared, or absent on the login page
FormOf(page) == IF page.page = "main" THEN EvaluateForm(<<>>) ELSE NoForm

(***************************************************************************)
(* Inputs of the explored runs.                                            *)
(***************************************************************************)
Date(y, m, d) == [year |-> y, month |-> m, day |-> d]

\* e-mails typed into the login and sign-up forms ("" is malformed)
Emails == {"", "a@x.io", "b@x.io"}

\* passwords typed into the sign-up form
Passwords == {<<"a", "b", "c">>, <<"s", "e", "c", "r", "e", "t">>}

\* the uids of the accounts that can exist
Uids == {"u1", "u2"}

\* the uid Firebase gives the account created for an e-mail: one per account
NewUid(email) == IF email = "a@x.io" THEN "u1" ELSE "u2"

\* min_value of both number inputs, in hundredths
min_value == 1

\* amounts typed into the number inputs; the widget yields none below min_value
AmountChoices == {0, 250}

NumberInputs == {a \in AmountChoices : a >= min_value}

FormDates == {Date(2024, 12, 30)}

FormDescriptions == {<<>>, <<"c", "a", "f", "e">>}

FormPersons == {"", "Al"}

\* positions of the category selectbox the user picks
PickedOptions == {1, 9}

\* words the descriptions given to the categorizer are made of
Fragments ==
    { <<"r", "e", "s", "t", "a", "u", "r", "a", "n", "t">>,
      <<"r", "e", "p", "a", "i", "r">>,
      <<"R", "E", "S", "T", "A", "U", "R", "A", "N", "T">>,
      <<"C", "a", "f", "e">>,
      <<"t", "h", "e", "a", "t", "r", "e">>,
      <<"m", "o", "v", "i", "e">>,
      <<"b", "u", "s">>,
      <<"U", "b", "e", "r">>,
      <<"p", "h", "o", "n", "e">>,
      <<"b", "i", "l", "l">>,
      <<"p", "a", "r", "e", "n", "t">>,
      <<"h", "o", "t", "e", "l">>,
      <<"f", "e", "e", "s">>,
      <<"a", "m", "a", "z", "o", "n">>,
      <<"s", "a", "l", "a", "r", "y">>,
      <<"g", "i", "f", "t">> }

\* the descriptions of at most n words, separated by single spaces
RECURSIVE Descriptions(_)
Descriptions(n) ==
    IF n = 0 THEN {<<>>}
    ELSE LET shorter == Descriptions(n - 1)
         IN  shorter \cup Fragments
             \cup {d \o <<" ">> \o w : d \in shorter \ {<<>>}, w \in Fragments}

Cafe == <<"c", "a", "f", "e">>

Tx(d, amount, category) ==
    [date |-> isoformat(d), description |-> Cafe, amount |-> amount, category |-> category]

\* stored transactions the aggregation inputs are drawn from
SampleTx ==
    { Tx(Date(2024, 1, 1), -2000, "Food"),
      Tx(Date(2024, 1, 2), -3000, "Food"),
      Tx(Date(2024, 2, 1), -1000, "Transport"),
      Tx(Date(2024, 12, 29), -10000, "Food"),
      Tx(Date(2024, 12, 30), -5000, "Bills"),
      Tx(Date(2025, 1, 5), 20000, "Other"),
      Tx(Date(2024, 1, 31), 1500, "Entertainment"),
      Tx(Date(2024, 1, 7), -700, "Trip") }

\* stored lending collections the aggregation inputs are drawn from
SampleLending ==
    { <<>>,
      <<[date |-> isoformat(Date(2024, 1, 31)), person |-> "Al", amount |-> 10000, type |-> "Lent"],
        [date |-> isoformat(Date(2024, 2, 1)), person |-> "Bo", amount |-> 5000, type |-> "Loan"]>> }

\* the sequences of at most n elements of S
SeqsUpTo(S, n) == UNION {[1..k -> S] : k \in 0..n}

EmptyStore == [u \in Uids |-> [transactions |-> <<>>, lending_loan |-> <<>>]]

(***************************************************************************)
(* The application: one action per script run.                             *)
(***************************************************************************)
Init ==
    /\ accounts = <<>>
    /\ session_state = EmptySession
    /\ db = EmptyStore
    /\ form = NoForm
    /\ view = [page |-> "none"]
    /\ event = [kind |-> "none"]

LoginPageShown == "logged_in" \in DOMAIN session_state /\ ~session_state.logged_in

DashboardShown == "logged_in" \in DOMAIN session_state /\ session_state.logged_in

\* the page is opened in a new browser session: session_state starts empty
Reload ==
    /\ session_state' = Initialised(EmptySession)
    /\ view' = app(session_state', db, "")
    /\ form' = FormOf(view')
    /\ event' = [kind |-> "reload"]
    /\ UNCHANGED <<accounts, db>>

\* the script reruns in the current session without a button pressed
Rerun ==
    /\ session_state' = Initialised(session_state)
    /\ view' = app(session_state', db, "")
    /\ form' = FormOf(view')
    /\ event' = [kind |-> "rerun"]
    /\ UNCHANGED <<accounts, db>>

\* the Login button: on success st.rerun() shows the page of the new session state
Login(email) ==
    /\ LoginPageShown
    /\ session_state' = login_button(session_state, accounts, email)
    /\ view' = IF get_user_by_email(accounts, email).ok
               THEN app(session_state', db, "")
               ELSE login_page(IF get_user_by_email(accounts, email).error = "FirebaseError"
                               THEN "Login failed" ELSE "Invalid email or password.")
    /\ form' = FormOf(view')
    /\ event' = [kind |-> "login", email |-> email]
    /\ UNCHANGED <<accounts, db>>

\* the Create Account button
SignUp(email, password) ==
    /\ LoginPageShown
    /\ LET error == create_user_error(accounts, email, password)
       IN  IF error = ""
           THEN /\ accounts' = [e \in DOMAIN accounts \cup {email} |->
                                   IF e = email THEN NewUid(email) ELSE accounts[e]]
                /\ view' = login_page("Account created successfully! Please log in.")
           ELSE /\ accounts' = accounts
                /\ view' = login_page("Sign up failed")
    /\ form' = FormOf(view')
    /\ event' = [kind |-> "signup"]
    /\ UNCHANGED <<session_state, db>>

\* the transaction form submitted; a stored transaction is followed by st.rerun()
SubmitTransaction(transaction_date, transaction_type, amount_input, description, picked) ==
    /\ DashboardShown
    /\ LET user_id == session_state.user_id
           category == categories[picked]
           amount == SignedAmount(transaction_type, amount_input)
       IN  /\ IF description # <<>> /\ amount_input # 0
              THEN /\ DocCount(db) < MaxDocs
                   /\ db' = add_transaction(db, user_id, isoformat(transaction_date),
                                            description, amount, category)
              ELSE db' = db
           /\ event' = [kind |-> "transaction", transaction_type |-> transaction_type,
                        description |-> description]
    /\ view' = app(session_state, db', "")
    /\ form' = FormOf(view')
    /\ UNCHANGED <<accounts, session_state>>

\* the lending form submitted; a stored record is followed by st.rerun()
SubmitLending(lending_date, person, loan_amount, loan_type) ==
    /\ DashboardShown
    /\ LET user_id == session_state.user_id
       IN  /\ IF person # "" /\ loan_amount # 0
              THEN /\ DocCount(db) < MaxDocs
                   /\ db' = add_lending_loan(db, user_id, isoformat(lending_date),
                                             person, loan_amount, loan_type)
              ELSE db' = db
           /\ event' = [kind |-> "lending", person |-> person]
    /\ view' = app(session_state, db', "")
    /\ form' = FormOf(view')
    /\ UNCHANGED <<accounts, session_state>>

Next ==
    \/ Reload
    \/ Rerun
    \/ \E email \in Emails : Login(email)
    \/ \E email \in Emails, password \in Passwords : SignUp(email, password)
    \/ \E d \in FormDates, t \in {"Expense", "Income"}, a \in NumberInputs,
          text \in FormDescriptions, k \in PickedOptions :
            SubmitTransaction(d, t, a, text, k)
    \/ \E d \in FormDates, p \in FormPersons, a \in NumberInputs, t \in {"Lent", "Loan"} :
            SubmitLending(d, p, a, t)

Spec == Init /\ [][Next]_vars

(***************************************************************************)
(* The categorizer on its own: a description is drawn, then categorized.   *)
(***************************************************************************)
CatInit ==
    /\ accounts = <<>>
    /\ session_state = EmptySession
    /\ db = EmptyStore
    /\ form \in {[description |-> d, suggested_cat |-> "?", index |-> 0, raised |-> {}] :
                    d \in Descriptions(MaxWords)}
    /\ view = [page |-> "none"]
    /\ event = [kind |-> "none"]

\* lines 201-202 of the form on the drawn description
Suggest ==
    /\ form.suggested_cat = "?"
    /\ form' = EvaluateForm(form.description)
    /\ UNCHANGED <<accounts, session_state, db, view, event>>

CatNext == Suggest

SpecCat == CatInit /\ [][CatNext]_vars

(***************************************************************************)
(* The dashboard on its own: a user's stored records are drawn, then the   *)
(* dashboard is rendered for that user.                                    *)
(***************************************************************************)
AggInit ==
    /\ accounts = [e \in {"a@x.io"} |-> "u1"]
    /\ session_state = [logged_in |-> TRUE, user_id |-> "u1"]
    /\ \E txs \in SeqsUpTo(SampleTx, MaxTx), lends \in SampleLending :
          db = [EmptyStore EXCEPT !["u1"] = [transactions |-> txs, lending_loan |-> lends]]
    /\ form = NoForm
    /\ view = [page |-> "none"]
    /\ event = [kind |-> "none"]

AggNext == Rerun

SpecAgg == AggInit /\ [][AggNext]_vars

(***************************************************************************)
(* Properties.                                                             *)
(***************************************************************************)
\* the transactions and lending records stored for the user the dashboard shows
ShownTransactions == Stream(db, view.user_id, "transactions")

ShownLending == Stream(db, view.user_id, "lending_loan")

Amounts(rows) == [i \in 1..Len(rows) |-> rows[i].amount]

RECURSIVE SumOver(_, _)
SumOver(rows, idx) ==
    IF idx = {} THEN 0
    ELSE LET i == CHOOSE x \in idx : TRUE
         IN  rows[i].amount + SumOver(rows, idx \ {i})

\* the sum of the magnitudes of the expenses (negative amounts) in bad categories
BadExpenseMagnitude(txs) ==
    -SumOver(txs, {i \in 1..Len(txs) :
                      txs[i].category \in {"Entertainment", "Food", "Trip"}
                      /\ txs[i].amount < 0})

C1_Example ==
    <<Tx(Date(2024, 12, 29), -10000, "Food"),
      Tx(Date(2024, 12, 30), -5000, "Bills"),
      Tx(Date(2025, 1, 5), 20000, "Other")>>

\* C1: the bad total of the good-vs-bad split is the sum of the magnitudes of the
\* expenses in Entertainment, Food and Trip, a non-negative number; for
\* [(-100, Food), (-50, Bills), (200, Other)] it is 100.
C1_BadTotalIsMagnitude ==
    view.page = "main" =>
        /\ view.total_bad_expenses = BadExpenseMagnitude(ShownTransactions)
        /\ view.total_bad_expenses >= 0
        /\ ShownTransactions = C1_Example => view.total_bad_expenses = 10000

\* the fixed order of the eight keyword categories
CategoryOrder ==
    <<"Food", "Transport", "Shopping", "Bills", "Entertainment", "Trip",
      "Education/Fees", "Services">>

\* the positions in CategoryOrder of the categories with a keyword in the text
Matching(text) ==
    {k \in 1..Len(CategoryOrder) :
        \E i \in 1..Len(keywords) :
            /\ keywords[i].category = CategoryOrder[k]
            /\ \E t \in 1..Len(keywords[i].terms) :
                   Contains(Lower(text), keywords[i].terms[t])}

Suggested == form.suggested_cat # "?"

\* C2: a description with keywords of two or more categories gets the matching
\* category that comes first in the fixed order, wherever the keywords occur.
C2_FirstCategoryWins ==
    Suggested /\ Cardinality(Matching(form.description)) >= 2 =>
        \E k \in Matching(form.description) :
            /\ form.suggested_cat = CategoryOrder[k]
            /\ \A j \in Matching(form.description) : k <= j

\* "repair restaurant": the Services keyword comes first in the text, Food wins
C2_Witness ==
    /\ Suggested
    /\ form.description =
           <<"r", "e", "p", "a", "i", "r", " ",
             "r", "e", "s", "t", "a", "u", "r", "a", "n", "t">>
    /\ Matching(form.description) = {1, 8}
    /\ form.suggested_cat = "Food"

\* C3: a description without any keyword, the empty one included, gets "Other";
\* the result is always one of the nine categories and nothing is raised.
C3_NoMatchIsOther ==
    Suggested =>
        /\ Matching(form.description) = {} => form.suggested_cat = "Other"
        /\ form.suggested_cat \in {categories[k] : k \in 1..Len(categories)}
        /\ form.suggested_cat \in {CategoryOrder[k] : k \in 1..Len(CategoryOrder)} \cup {"Other"}
        /\ form.raised = {}

\* "salary gift" matches nothing and is categorized as Other, shown at index 8
C3_Witness ==
    /\ Suggested
    /\ form.description =
           <<"s", "a", "l", "a", "r", "y", " ", "g", "i", "f", "t">>
    /\ Matching(form.description) = {}
    /\ form.suggested_cat = "Other"
    /\ form.index = 8

\* C4: the per-category aggregation of a non-empty collection has exactly one row
\* per category present, and its totals add up to the sum of all signed amounts.
C4_CategoryTotalsPreserved ==
    view.page = "main" /\ ShownTransactions # <<>> =>
        LET rows == view.category_expenses
            txs == ShownTransactions
        IN  /\ {rows[i].category : i \in 1..Len(rows)}
                  = {txs[i].category : i \in 1..Len(txs)}
            /\ Len(rows) = Cardinality({txs[i].category : i \in 1..Len(txs)})
            /\ SeqSum(Amounts(rows)) = SeqSum(Amounts(txs))

\* three records, two of one category, income and expenses mixed
C4_Witness ==
    /\ view.page = "main"
    /\ Len(ShownTransactions) = 3
    /\ Len(view.category_expenses) = 2
    /\ \E i, j \in 1..3 : ShownTransactions[i].amount < 0 /\ ShownTransactions[j].amount > 0

\* C5: over an empty transaction or lending collection every aggregation is empty
\* (the overall totals are 0) and no column of a missing frame is read.
C5_EmptyIsNotAnError ==
    view.page = "main" =>
        /\ view.raised = {}
        /\ ShownTransactions = <<>> =>
              /\ view.total_expenses = 0
              /\ view.daily_expenses = <<>>
              /\ view.weekly_expenses = <<>>
              /\ view.monthly_expenses = <<>>
              /\ view.category_expenses = <<>>
              /\ view.total_bad_expenses = 0
              /\ view.goodbad_summary = <<>>
        /\ ShownLending = <<>> =>
              /\ view.total_lent = 0
              /\ view.total_loan = 0
              /\ view.monthly_lending_loan = <<>>

\* the dashboard of a user without transactions but with a lending record
C5_Witness ==
    /\ view.page = "main"
    /\ ShownTransactions = <<>>
    /\ ShownLending # <<>>
    /\ view.total_expenses = 0
    /\ view.total_lent + view.total_loan > 0

C6_Example ==
    <<Tx(Date(2024, 1, 1), -2000, "Food"),
      Tx(Date(2024, 1, 2), -3000, "Food"),
      Tx(Date(2024, 2, 1), -1000, "Transport")>>

\* the year and month of an ISO date "YYYY-MM-DD": its first seven characters
YearMonth(iso) == SubSeq(iso, 1, 7)

\* the months since year 0 of a label "YYYY-MM"
MonthNumber(label) == 12 * ParseInt(SubSeq(label, 1, 4)) + ParseInt(SubSeq(label, 6, 7))

\* C6: the monthly aggregation has exactly one row per year-month present, in
\* ascending month order, each with the signed sum of that month's amounts; the
\* records of 2024-01-01 (-20), 2024-01-02 (-30), 2024-02-01 (-10) give
\* [("2024-01", -50), ("2024-02", -10)].
C6_MonthlyRows ==
    view.page = "main" /\ ShownTransactions # <<>> =>
        LET rows == view.monthly_expenses
            txs == ShownTransactions
            months == {YearMonth(txs[i].date) : i \in 1..Len(txs)}
        IN  /\ {rows[i].month : i \in 1..Len(rows)} = months
            /\ Len(rows) = Cardinality(months)
            /\ \A i \in 1..(Len(rows) - 1) :
                   MonthNumber(rows[i].month) < MonthNumber(rows[i + 1].month)
            /\ \A i \in 1..Len(rows) :
                   rows[i].amount =
                       SumOver(txs, {j \in 1..Len(txs) : YearMonth(txs[j].date) = rows[i].month})
            /\ txs = C6_Example =>
                   rows = <<[month |-> <<"2", "0", "2", "4", "-", "0", "1">>, amount |-> -5000],
                            [month |-> <<"2", "0", "2", "4", "-", "0", "2">>, amount |-> -1000]>>

C6_Witness ==
    /\ view.page = "main"
    /\ ShownTransactions = C6_Example
    /\ Len(view.monthly_expenses) = 2
    /\ view.monthly_expenses[1].amount = -5000

\* the calendar: every date of the drawn records with the Monday and the Sunday
\* of the Monday-to-Sunday week it lies in
Calendar ==
    { <<Date(2024, 1, 1), Date(2024, 1, 1), Date(2024, 1, 7)>>,
      <<Date(2024, 1, 2), Date(2024, 1, 1), Date(2024, 1, 7)>>,
      <<Date(2024, 1, 7), Date(2024, 1, 1), Date(2024, 1, 7)>>,
      <<Date(2024, 1, 31), Date(2024, 1, 29), Date(2024, 2, 4)>>,
      <<Date(2024, 2, 1), Date(2024, 1, 29), Date(2024, 2, 4)>>,
      <<Date(2024, 12, 29), Date(2024, 12, 23), Date(2024, 12, 29)>>,
      <<Date(2024, 12, 30), Date(2024, 12, 30), Date(2025, 1, 5)>>,
      <<Date(2025, 1, 5), Date(2024, 12, 30), Date(2025, 1, 5)>> }

\* the calendar week of an ISO date, written "Monday/Sunday"
CalendarWeek(iso) ==
    LET c == CHOOSE x \in Calendar : isoformat(x[1]) = iso
    IN  isoformat(c[2]) \o <<"/">> \o isoformat(c[3])

\* C7: the weekly aggregation sums two transactions into the same row exactly when
\* their dates lie in the same Monday-to-Sunday week, across month and year ends.
C7_WeeklyRows ==
    view.page = "main" /\ ShownTransactions # <<>> =>
        LET rows == view.weekly_expenses
            txs == ShownTransactions
            weeks == {CalendarWeek(txs[i].date) : i \in 1..Len(txs)}
        IN  /\ Len(rows) = Cardinality(weeks)
            /\ {<<rows[i].week, rows[i].amount>> : i \in 1..Len(rows)}
                  = {<<w, SumOver(txs, {j \in 1..Len(txs) : CalendarWeek(txs[j].date) = w})>> :
                        w \in weeks}

\* Sunday 2024-12-29, Monday 2024-12-30 and Sunday 2025-01-05: two weekly rows,
\* the second across the end of the year
C7_Witness ==
    /\ view.page = "main"
    /\ {ShownTransactions[i].date : i \in 1..Len(ShownTransactions)}
          = {isoformat(Date(2024, 12, 29)), isoformat(Date(2024, 12, 30)),
             isoformat(Date(2025, 1, 5))}
    /\ Len(view.weekly_expenses) = 2

\* every stored transaction and lending record is well-formed
C8_StoredRecordsValid ==
    \A u \in DOMAIN db :
        /\ \A i \in 1..Len(db[u].transactions) :
               /\ db[u].transactions[i].amount # 0
               /\ db[u].transactions[i].category \in
                      {"Food", "Transport", "Shopping", "Bills", "Entertainment",
                       "Trip", "Education/Fees", "Services", "Other"}
        /\ \A i \in 1..Len(db[u].lending_loan) :
               /\ db[u].lending_loan[i].amount > 0
               /\ db[u].lending_loan[i].type \in {"Lent", "Loan"}

\* the transaction a step has added to the store, if it added one
AddedTransactions ==
    {db'[u].transactions[Len(db'[u].transactions)] :
        u \in {x \in DOMAIN db : Len(db'[x].transactions) > Len(db[x].transactions)}}

\* what a submission may store: an Expense a negative amount, an Income a positive
\* one, and nothing at all with an empty description or person name
C8_SubmissionStep ==
    /\ event'.kind = "transaction" =>
          /\ event'.description = <<>> => db' = db
          /\ \A t \in AddedTransactions :
                 /\ t.amount < 0 <=> event'.transaction_type = "Expense"
                 /\ t.amount > 0 <=> event'.transaction_type = "Income"
    /\ event'.kind = "lending" /\ event'.person = "" => db' = db

\* C8: after any sequence of submissions every stored transaction has a nonzero
\* amount, negative exactly for an Expense and positive exactly for an Income, and
\* one of the nine categories; every stored lending record has amount > 0 and type
\* Lent or Loan; a submission with an empty description or person stores nothing.
C8_StoredRecords == []C8_StoredRecordsValid /\ [][C8_SubmissionStep]_vars

\* an Expense has just been stored next to a lending record
C8_Witness ==
    /\ event.kind = "transaction"
    /\ event.transaction_type = "Expense"
    /\ event.description # <<>>
    /\ \E u \in DOMAIN db :
           /\ Len(db[u].transactions) = 1
           /\ db[u].transactions[1].amount < 0
           /\ Len(db[u].lending_loan) = 1

\* collection name of user u grew by one record at its end, and nothing else changed
AppendedTo(u, name, other) ==
    /\ Len(db'[u][name]) = Len(db[u][name]) + 1
    /\ SubSeq(db'[u][name], 1, Len(db[u][name])) = db[u][name]
    /\ db'[u][other] = db[u][other]
    /\ \A v \in DOMAIN db \ {u} : db'[v] = db[v]
    /\ DOMAIN db' = DOMAIN db

\* C9: storage is append-only and partitioned by user: add_transaction and
\* add_lending_loan add exactly one record to the user's own collection and leave
\* every stored record, the user's other collection and every other user's
\* collections unchanged; nothing updates or deletes a record.
C9_AppendOnly ==
    [][ /\ \/ db' = db
           \/ /\ event'.kind = "transaction"
              /\ AppendedTo(session_state.user_id, "transactions", "lending_loan")
           \/ /\ event'.kind = "lending"
              /\ AppendedTo(session_state.user_id, "lending_loan", "transactions")
        /\ event'.kind = "transaction" /\ event'.description # <<>> => db' # db
        /\ event'.kind = "lending" /\ event'.person # "" => db' # db ]_vars

\* a transaction has just been added for one user while another user has a record
C9_Witness ==
    /\ event.kind = "transaction"
    /\ event.description # <<>>
    /\ session_state.logged_in
    /\ Len(db[session_state.user_id].transactions) = 1
    /\ \E v \in DOMAIN db \ {session_state.user_id} : Len(db[v].lending_loan) = 1

LoggedIn == "logged_in" \in DOMAIN session_state /\ session_state.logged_in

\* the session and the page shown agree
C10_SessionValid ==
    /\ LoggedIn => \E e \in DOMAIN accounts : session_state.user_id = accounts[e]
    /\ view.page = "main" => LoggedIn /\ view.user_id = session_state.user_id
    /\ view.page = "login" => ~LoggedIn

\* what a login or sign-up attempt does to the session
C10_AttemptStep ==
    /\ event'.kind = "login" =>
          IF event'.email \in DOMAIN accounts
          THEN session_state' = [logged_in |-> TRUE, user_id |-> accounts[event'.email]]
          ELSE session_state' = session_state /\ ~session_state'.logged_in
    /\ event'.kind = "signup" =>
          session_state' = session_state /\ ~session_state'.logged_in

\* C10: logged_in is True only with the uid of an existing account, the one the
\* e-mail lookup returned; a failed lookup or a sign-up leaves logged_in False and
\* user_id unchanged; the dashboard is rendered only when logged_in is True, for
\* that user_id, and the login page otherwise.
C10_Session == []C10_SessionValid /\ [][C10_AttemptStep]_vars

\* the second of two accounts has just logged in and sees the dashboard
C10_Witness ==
    /\ event.kind = "login"
    /\ LoggedIn
    /\ session_state.user_id = "u2"
    /\ view.page = "main"
    /\ DOMAIN accounts = {"a@x.io", "b@x.io"}

====
